---------------------------- MODULE Spec2Model ----------------------------
(***************************************************************************)
(* A model of the melty webview <-> extension-host bridge:                 *)
(*   - RpcClient (webview side): run / handleMessage                       *)
(*   - HelloWorldPanel (host side): the message listener, handleRPCCall,   *)
(*     rpcChatMessage, notifyWebviewOfChatError                            *)
(*   - GitManager: getLatestCommitHash, undoLastCommit, commitChangeSet,   *)
(*     commitLocalChanges                                                  *)
(* The specifications share the variables:                                 *)
(*   Spec          the RPC bridge with handlers that return or throw       *)
(*   SpecIsolated  the same bridge under fair listener callbacks           *)
(*   SpecChat      chatMessage calls streaming task snapshots              *)
(*   SpecSameTask  concurrent chatMessage calls on one task                *)
(*   SpecTasks     the activateTask and deactivateTask handlers            *)
(*   SpecGit       the version-control adapter: undo and commits           *)
(*   SpecCommit    the commit operations with staging and failures         *)
(*   SpecDiff      getUdiffFromCommit                                      *)
(*   SpecUndoRpc   the undoLatestCommit handler                            *)
(*   SpecConfig    the getGitConfigErrors handler                          *)
(***************************************************************************)
EXTENDS Integers, Sequences, FiniteSets, TLC

VARIABLES
    messageId,        \* RpcClient.messageId
    pendingMessages,  \* RpcClient.pendingMessages: the ids that have an entry
    settleLog,        \* per call id: every resolve/reject invocation on its promise
    toHost,           \* webview -> host transport (FIFO)
    toUI,             \* host -> webview transport (FIFO)
    uiLog,            \* what the webview has received from the transport, in order
    strays,           \* the ids of the unmatched rpcResponse events handled so far
    DEV_MODE,         \* config.DEV_MODE
    hcall,            \* per call id: the host's dispatch of that call
    conversation,     \* per task id: the task's conversation (sequence of joules)
    statusMessage,    \* the notifier's global status message
    repo,             \* GitManager.repo: 0 (undefined) or an index of repositories
    repositories,     \* the git extension's repositories: each a commit history
    workspaceRepo,    \* the index of the repository whose root is the workspace root
    workingTree,      \* changed, unstaged paths of the workspace repository
    indexChanges,     \* staged paths of the workspace repository
    nextHash,         \* the next fresh commit hash
    undo,             \* the running undoLastCommit, if any
    commitOp,         \* the running commitChangeSet / commitLocalChanges, if any
    udiff,            \* the running getUdiffFromCommit, if any
    activeTasks,      \* the ids of the tasks the task manager holds active
    taskOp,           \* the latest activateTask / deactivateTask RPC handler run
    gitExtension,     \* whether vscode.extensions.getExtension('vscode.git') is there
    polling,          \* whether GitManager.pollForGitExtensionInterval is still set
    configOp          \* the latest getGitConfigErrors RPC handler run

rpcVars  == <<messageId, pendingMessages, settleLog, toHost, toUI, uiLog, strays, DEV_MODE,
             hcall>>
chatVars == <<conversation, statusMessage>>
gitVars  == <<repo, repositories, workspaceRepo, workingTree, indexChanges, nextHash, undo,
             commitOp, udiff>>
taskVars == <<activeTasks, taskOp>>
configVars == <<gitExtension, polling, configOp>>
vars     == <<rpcVars, chatVars, gitVars, taskVars, configVars>>

---------------------------------------------------------------------------
\* Bounds

\* how many calls one RpcClient issues in a run
MaxCalls == 2
\* how many partial snapshots one bot turn streams
MaxPartials == 1
\* how many chatMessage calls are issued in a run of the chat specification
MaxChatCalls == 1
\* how many commits are created in a run of the version-control specification
MaxCommits == 2
\* how many commits the repository of the diff specification holds at most
MaxHistory == 3

CallIds == 1..MaxCalls

---------------------------------------------------------------------------
\* JavaScript values the bridge inspects

\* the value undefined (also: an absent property)
UndefinedV == "<undefined>"

\* JavaScript truthiness of a string-or-undefined value: undefined and "" are falsy
Truthy(v) == v \notin {UndefinedV, ""}

\* values a handler may throw: an Error with a message, an Error with an empty
\* message, a non-Error value (a string), and undefined (a promise rejected
\* without a reason)
ThrownValues ==
    { [kind |-> "Error", message |-> "boom"],
      [kind |-> "Error", message |-> ""],
      [kind |-> "String", message |-> "boom"],
      [kind |-> "Undefined", message |-> UndefinedV] }

\* values a handler may return
ResultValues == {"value", UndefinedV}

\* error.message as the listener's catch reads it: the message of an Error, undefined
\* on a string primitive; on undefined the property access itself throws
HasMessageProperty(e) == e.kind # "Undefined"
DotMessage(e) == IF e.kind = "Error" THEN e.message ELSE UndefinedV

\* errorMessage as handleRPCCall's catch computes it
ErrorMessageOf(e) ==
    IF e.kind = "Error" THEN e.message
    ELSE IF e.kind = "String" THEN e.message
    ELSE "undefined"

NoValue == [kind |-> "None", message |-> UndefinedV]

---------------------------------------------------------------------------
\* RpcClient (webview)

RpcMessage(id, method, params) ==
    [type |-> "rpc", id |-> id, method |-> method, params |-> params]

\* A faulty run that gives a call the smallest id without a pending entry, so that
\* the id of an answered call is handed out again.
runReusingFreedId(method, params) ==
    /\ messageId < MaxCalls
    /\ LET id == CHOOSE i \in 1..(MaxCalls + 1) :
                    i \notin pendingMessages /\ \A j \in 1..(i - 1) : j \in pendingMessages IN
        /\ messageId' = messageId + 1
        /\ pendingMessages' = pendingMessages \cup {id}
        /\ toHost' = Append(toHost, RpcMessage(id, method, params))
    /\ UNCHANGED <<settleLog, toUI, uiLog, strays, DEV_MODE, hcall>>

\* RpcClient.run: allocate the next id, record the pending entry, post the Call
run(method, params) ==
    /\ messageId < MaxCalls
    /\ LET id == messageId + 1 IN
        /\ messageId' = id
        /\ pendingMessages' = pendingMessages \cup {id}
        /\ toHost' = Append(toHost, RpcMessage(id, method, params))
    /\ UNCHANGED <<settleLog, toUI, uiLog, strays, DEV_MODE, hcall>>

\* A faulty handleMessage that settles the oldest pending call, whatever the id of
\* the response.
handleMessageOldestPending(message) ==
    IF message.type = "rpcResponse"
    THEN IF pendingMessages # {}
         THEN LET id == CHOOSE i \in pendingMessages : \A j \in pendingMessages : i <= j IN
              /\ pendingMessages' = pendingMessages \ {id}
              /\ settleLog' = [settleLog EXCEPT ![id] = Append(@,
                     IF Truthy(message.error)
                     THEN [kind |-> "reject", value |-> message.error, from |-> message.id]
                     ELSE [kind |-> "resolve", value |-> message.result, from |-> message.id])]
         ELSE UNCHANGED <<pendingMessages, settleLog>>
    ELSE UNCHANGED <<pendingMessages, settleLog>>

\* A faulty handleMessage that settles from the id's entry, if it was ever issued,
\* without consulting or clearing the pending set.
handleMessageNoPendingCheck(message) ==
    IF message.type = "rpcResponse" /\ message.id \in 1..messageId
    THEN /\ pendingMessages' = pendingMessages \ {message.id}
         /\ settleLog' = [settleLog EXCEPT ![message.id] = Append(@,
                IF Truthy(message.error)
                THEN [kind |-> "reject", value |-> message.error, from |-> message.id]
                ELSE [kind |-> "resolve", value |-> message.result, from |-> message.id])]
    ELSE UNCHANGED <<pendingMessages, settleLog>>

\* A faulty handleMessage that settles the call of a matching response but leaves
\* its entry in the pending set.
handleMessageKeepsEntry(message) ==
    IF message.type = "rpcResponse" /\ message.id \in pendingMessages
    THEN /\ pendingMessages' = pendingMessages
         /\ settleLog' = [settleLog EXCEPT ![message.id] = Append(@,
                IF Truthy(message.error)
                THEN [kind |-> "reject", value |-> message.error, from |-> message.id]
                ELSE [kind |-> "resolve", value |-> message.result, from |-> message.id])]
    ELSE UNCHANGED <<pendingMessages, settleLog>>

\* RpcClient.handleMessage: only rpcResponse messages are looked at; a response whose
\* id has a pending entry deletes the entry and rejects (truthy error) or resolves;
\* any other response is only warned about
handleMessage(message) ==
    IF message.type = "rpcResponse"
    THEN IF message.id \in pendingMessages
         THEN /\ pendingMessages' = pendingMessages \ {message.id}
              /\ settleLog' = [settleLog EXCEPT ![message.id] = Append(@,
                     IF Truthy(message.error)
                     THEN [kind |-> "reject", value |-> message.error, from |-> message.id]
                     ELSE [kind |-> "resolve", value |-> message.result, from |-> message.id])]
         ELSE UNCHANGED <<pendingMessages, settleLog>>
    ELSE UNCHANGED <<pendingMessages, settleLog>>

---------------------------------------------------------------------------
\* Tasks and the notifier (host)

TaskIds == {"T1", "T2", "T3"}
\* the tasks the task manager holds active at the start; getActiveTask returns null
\* for a task that is not active
ActiveTaskIds == {"T1", "T2"}

getActiveTask(taskId) == IF taskId \in activeTasks THEN taskId ELSE "null"

\* a joule of a conversation; seq numbers the partial states of a streaming bot joule
Joule(author, c) == [author |-> author, call |-> c, seq |-> 0]
PartialJoule(c, n) == [author |-> "BotPartial", call |-> c, seq |-> n]

\* WebviewNotifier.sendNotification("updateTask", {task}): posts the snapshot
sendNotification(q, c, taskId, conv) ==
    Append(q, [type |-> "updateTask", call |-> c, task |-> taskId, conversation |-> conv])

\* WebviewNotifier.updateStatusMessage / resetStatusMessage: post the status text
sendStatus(q, c, text) ==
    Append(q, [type |-> "updateStatusMessage", call |-> c, text |-> text])

---------------------------------------------------------------------------
\* HelloWorldPanel (host): the message listener and handleRPCCall

\* the methods of handleRPCCall's switch that this model runs as a handler which
\* returns a value or throws
KnownMethods == {"getLatestCommit"}
\* a method name that is not in the switch
UnknownMethod == "noSuchMethod"

HostIdle ==
    [pc |-> "idle", method |-> "", taskId |-> "", res |-> UndefinedV, err |-> NoValue,
     thrown |-> NoValue, base |-> <<>>, partials |-> 0]

Response(id, method, result, error) ==
    [type |-> "rpcResponse", method |-> method, id |-> id, result |-> result, error |-> error]

InactiveTaskError == [kind |-> "Error", message |-> "Tried to chat with an inactive task"]
UnknownMethodError == [kind |-> "Error", message |-> "Unknown RPC method"]
NullTaskTypeError ==
    [kind |-> "Error", message |-> "Cannot read properties of null (reading 'addErrorJoule')"]

\* notifyWebviewOfChatError, entered from handleRPCCall's catch with the handler's
\* error e: on an active task the Error joule is added and the task pushed, and the
\* caller is suspended on the push; on a null task, task.addErrorJoule throws a
\* TypeError, which replaces e as the rejection of handleRPCCall
notifyWebviewOfChatError(c, taskId, e) ==
    IF getActiveTask(taskId) # "null"
    THEN /\ conversation' = [conversation EXCEPT ![taskId] = Append(@, Joule("Error", c))]
         /\ toUI' = sendNotification(toUI, c, taskId, conversation'[taskId])
         /\ hcall' = [hcall EXCEPT ![c].pc = "errNotified", ![c].err = e, ![c].thrown = e]
         /\ UNCHANGED statusMessage
    ELSE /\ hcall' = [hcall EXCEPT ![c].pc = "catch", ![c].err = NullTaskTypeError,
                                   ![c].thrown = e]
         /\ UNCHANGED <<conversation, toUI, statusMessage>>

\* rpcChatMessage up to its first suspension: the status is set; an inactive task
\* throws, which handleRPCCall's catch hands to notifyWebviewOfChatError; on an
\* active task respondHuman appends the Human joule and the handler is suspended
rpcChatMessage(c, taskId) ==
    IF getActiveTask(taskId) = "null"
    THEN /\ statusMessage' = "Starting up"
         /\ hcall' = [hcall EXCEPT ![c].pc = "catch", ![c].method = "chatMessage",
                                   ![c].taskId = taskId, ![c].err = NullTaskTypeError,
                                   ![c].thrown = InactiveTaskError]
         /\ toUI' = sendStatus(toUI, c, "Starting up")
         /\ UNCHANGED conversation
    ELSE /\ statusMessage' = "Starting up"
         /\ conversation' = [conversation EXCEPT ![taskId] = Append(@, Joule("Human", c))]
         /\ hcall' = [hcall EXCEPT ![c].pc = "respondHuman", ![c].method = "chatMessage",
                                   ![c].taskId = taskId]
         /\ toUI' = sendStatus(toUI, c, "Starting up")

\* handleRPCCall up to its first suspension
handleRPCCall(c, method, params) ==
    IF method = "chatMessage"
    THEN rpcChatMessage(c, params.taskId)
    ELSE IF method \in KnownMethods
    THEN /\ hcall' = [hcall EXCEPT ![c].pc = "handler", ![c].method = method]
         /\ UNCHANGED <<toUI, conversation, statusMessage>>
    ELSE \* default: throw new Error(`Unknown RPC method`); the catch rethrows it
         /\ hcall' = [hcall EXCEPT ![c].pc = "catch", ![c].method = method,
                                   ![c].err = UnknownMethodError,
                                   ![c].thrown = UnknownMethodError]
         /\ UNCHANGED <<toUI, conversation, statusMessage>>

\* webview.onDidReceiveMessage: an "rpc" message starts handleRPCCall
ReceiveCall ==
    /\ toHost # <<>>
    /\ LET message == Head(toHost) IN
        /\ message.type = "rpc"
        /\ hcall[message.id].pc = "idle"
        /\ handleRPCCall(message.id, message.method, message.params)
    /\ toHost' = Tail(toHost)
    /\ UNCHANGED <<messageId, pendingMessages, settleLog, uiLog, strays, DEV_MODE, gitVars,
                   taskVars, configVars>>

\* a handler of a known method returns v: handleRPCCall resolves with it
HandlerReturn(c, v) ==
    /\ hcall[c].pc = "handler"
    /\ hcall' = [hcall EXCEPT ![c].pc = "then", ![c].res = v]
    /\ UNCHANGED <<messageId, pendingMessages, settleLog, toHost, toUI, uiLog, strays,
                   DEV_MODE, chatVars, gitVars, taskVars, configVars>>

\* a handler of a known method throws e: handleRPCCall's catch reports it and
\* rethrows it
HandlerThrow(c, e) ==
    /\ hcall[c].pc = "handler"
    /\ hcall' = [hcall EXCEPT ![c].pc = "catch", ![c].err = e, ![c].thrown = e]
    /\ UNCHANGED <<messageId, pendingMessages, settleLog, toHost, toUI, uiLog, strays,
                   DEV_MODE, chatVars, gitVars, taskVars, configVars>>

\* the listener's .then callback: post the rpcResponse carrying the result
thenCallback(c) ==
    /\ toUI' = Append(toUI, Response(c, hcall[c].method, hcall[c].res, UndefinedV))
    /\ hcall' = [hcall EXCEPT ![c].pc = "done"]

\* A faulty listener that posts the responses in the order of the calls: the response
\* of a call waits until every earlier call's dispatch is over.
ListenerThenAfterEarlier(c) ==
    /\ hcall[c].pc = "then"
    /\ \A d \in 1..(c - 1) : hcall[d].pc \in {"done", "escaped"}
    /\ thenCallback(c)
    /\ UNCHANGED <<messageId, pendingMessages, settleLog, toHost, uiLog, strays, DEV_MODE,
                   chatVars, gitVars, taskVars, configVars>>

\* handleRPCCall(...).then(...): the callback of a call runs once that call's own
\* handleRPCCall promise is fulfilled
ListenerThen(c) ==
    /\ hcall[c].pc = "then"
    /\ thenCallback(c)
    /\ UNCHANGED <<messageId, pendingMessages, settleLog, toHost, uiLog, strays, DEV_MODE,
                   chatVars, gitVars, taskVars, configVars>>

\* the listener's .catch callback: in dev mode the error is rethrown and nothing is
\* posted; otherwise the rpcResponse carries error.message, and reading .message of
\* undefined throws out of the callback
catchCallback(c) ==
    IF DEV_MODE \/ ~HasMessageProperty(hcall[c].err)
    THEN /\ hcall' = [hcall EXCEPT ![c].pc = "escaped"]
         /\ UNCHANGED toUI
    ELSE /\ toUI' = Append(toUI,
                 Response(c, hcall[c].method, UndefinedV, DotMessage(hcall[c].err)))
         /\ hcall' = [hcall EXCEPT ![c].pc = "done"]

ListenerCatch(c) ==
    /\ hcall[c].pc = "catch"
    /\ catchCallback(c)
    /\ UNCHANGED <<messageId, pendingMessages, settleLog, toHost, uiLog, strays, DEV_MODE,
                   chatVars, gitVars, taskVars, configVars>>

\* the webview receives the next message of the transport and RpcClient handles it
Deliver ==
    /\ toUI # <<>>
    /\ handleMessage(Head(toUI))
    /\ uiLog' = Append(uiLog, Head(toUI))
    /\ toUI' = Tail(toUI)
    /\ UNCHANGED <<messageId, toHost, strays, DEV_MODE, hcall, chatVars, gitVars, taskVars,
                   configVars>>

\* a message event carrying an rpcResponse whose id has no pending entry: an id never
\* issued, or one already answered (a duplicate)
StrayResponse(id, result, error) ==
    /\ id \notin pendingMessages
    /\ id \notin strays
    /\ handleMessage(Response(id, "stray", result, error))
    /\ strays' = strays \cup {id}
    /\ UNCHANGED <<messageId, toHost, toUI, uiLog, DEV_MODE, hcall, chatVars, gitVars,
                   taskVars, configVars>>

---------------------------------------------------------------------------
\* HelloWorldPanel.rpcChatMessage after its first suspension

\* A bot turn whose stream outlives the await: partials still arrive after
\* rpcChatMessage has gone on.
streamingDetached(c) ==
    /\ hcall[c].method = "chatMessage"
    /\ hcall[c].pc \in {"respondBot", "then", "done"}

\* processPartial is called by respondBot, which rpcChatMessage awaits: partials
\* arrive only while the handler is suspended on respondBot
streaming(c) == hcall[c].pc = "respondBot"

\* A final push that carries the conversation as it was before the bot turn.
finalSnapshotStale(c) == hcall[c].base

\* the final push carries task.dehydrateForWire(), read after respondBot has returned
finalSnapshot(c) == conversation'[hcall[c].taskId]

\* respondHuman has returned: the task is pushed and respondBot starts on the
\* conversation as it stands
ChatHumanDone(c) ==
    /\ hcall[c].pc = "respondHuman"
    /\ toUI' = sendNotification(toUI, c, hcall[c].taskId, conversation[hcall[c].taskId])
    /\ hcall' = [hcall EXCEPT ![c].pc = "respondBot",
                              ![c].base = conversation[hcall[c].taskId]]
    /\ UNCHANGED <<messageId, pendingMessages, settleLog, toHost, uiLog, strays, DEV_MODE,
                   conversation, statusMessage, gitVars, taskVars, configVars>>

\* processPartial(partialConversation): the snapshot pushed is the task with its
\* conversation replaced by the partial one, whose last joule is the bot's so far
BotPartial(c) ==
    /\ streaming(c)
    /\ hcall[c].partials < MaxPartials
    /\ toUI' = sendNotification(toUI, c, hcall[c].taskId,
                                Append(hcall[c].base, PartialJoule(c, hcall[c].partials + 1)))
    /\ hcall' = [hcall EXCEPT ![c].partials = @ + 1]
    /\ UNCHANGED <<messageId, pendingMessages, settleLog, toHost, uiLog, strays, DEV_MODE,
                   conversation, statusMessage, gitVars, taskVars, configVars>>

\* respondBot returns: the Bot joule is in the conversation; the final push, the
\* status reset, and rpcChatMessage (so handleRPCCall) resolves with undefined
BotDone(c) ==
    /\ hcall[c].pc = "respondBot"
    /\ conversation' = [conversation EXCEPT ![hcall[c].taskId] = Append(@, Joule("Bot", c))]
    /\ toUI' = sendStatus(sendNotification(toUI, c, hcall[c].taskId, finalSnapshot(c)), c, "")
    /\ statusMessage' = ""
    /\ hcall' = [hcall EXCEPT ![c].pc = "then", ![c].res = UndefinedV]
    /\ UNCHANGED <<messageId, pendingMessages, settleLog, toHost, uiLog, strays, DEV_MODE,
                   gitVars, taskVars, configVars>>

\* respondBot throws e: handleRPCCall's catch reports it and, the method being
\* chatMessage, awaits notifyWebviewOfChatError
BotFail(c, e) ==
    /\ hcall[c].pc = "respondBot"
    /\ notifyWebviewOfChatError(c, hcall[c].taskId, e)
    /\ UNCHANGED <<messageId, pendingMessages, settleLog, toHost, uiLog, strays, DEV_MODE,
                   gitVars, taskVars, configVars>>

\* the catch goes on after notifyWebviewOfChatError: resetStatusMessage, the
\* telemetry event, and the error is rethrown
ChatErrorReset(c) ==
    /\ hcall[c].pc = "errNotified"
    /\ statusMessage' = ""
    /\ toUI' = sendStatus(toUI, c, "")
    /\ hcall' = [hcall EXCEPT ![c].pc = "catch"]
    /\ UNCHANGED <<messageId, pendingMessages, settleLog, toHost, uiLog, strays, DEV_MODE,
                   conversation, gitVars, taskVars, configVars>>

---------------------------------------------------------------------------
\* HelloWorldPanel: the activateTask and deactivateTask handlers

\* a run of one of the two handlers: its position, its method and task, the error
\* message the task manager reported (undefined for none), the handler's result
TaskOpIdle ==
    [pc |-> "idle", method |-> "", taskId |-> "", errorMessage |-> UndefinedV,
     result |-> "none"]

\* what TaskManager.activate / deactivate report when they fail
TaskErrors == {"could not switch branch"}

\* rpcActivateTask / rpcDeactivateTask up to the await of the task manager
TaskOpStart(method, taskId) ==
    /\ taskOp.pc \in {"idle", "done"}
    /\ taskOp' = [TaskOpIdle EXCEPT !.pc = "await", !.method = method, !.taskId = taskId]
    /\ UNCHANGED activeTasks

\* TaskManager.activate(taskId): the task becomes active and nothing is reported, or
\* an error is reported and the task is left as it was
activate(taskId, errorMessage) ==
    IF Truthy(errorMessage) THEN activeTasks ELSE activeTasks \cup {taskId}

\* TaskManager.deactivate(taskId): the task stops being active and nothing is
\* reported, or an error is reported and the task is left as it was
deactivate(taskId, errorMessage) ==
    IF Truthy(errorMessage) THEN activeTasks ELSE activeTasks \ {taskId}

\* rpcActivateTask after the await: false on a reported error, true otherwise
rpcActivateTask(errorMessage) == IF Truthy(errorMessage) THEN FALSE ELSE TRUE

\* rpcDeactivateTask after the await: false on a reported error, and false otherwise
rpcDeactivateTask(errMessage) == IF Truthy(errMessage) THEN FALSE ELSE FALSE

\* the task manager has answered the activateTask handler
ActivateTaskDone(errorMessage) ==
    /\ taskOp.pc = "await" /\ taskOp.method = "activateTask"
    /\ activeTasks' = activate(taskOp.taskId, errorMessage)
    /\ taskOp' = [taskOp EXCEPT !.pc = "done", !.errorMessage = errorMessage,
                                !.result = rpcActivateTask(errorMessage)]

\* the task manager has answered the deactivateTask handler
DeactivateTaskDone(errMessage) ==
    /\ taskOp.pc = "await" /\ taskOp.method = "deactivateTask"
    /\ activeTasks' = deactivate(taskOp.taskId, errMessage)
    /\ taskOp' = [taskOp EXCEPT !.pc = "done", !.errorMessage = errMessage,
                                !.result = rpcDeactivateTask(errMessage)]

---------------------------------------------------------------------------
\* GitManager

\* paths of the workspace: the changeset edits ChangeSetFiles, the user edits any
Files == {"f", "g", "i"}
\* the paths a changeset edits
ChangeSetFiles == {"f"}
\* the paths whose change is reported with gitIgnored set
IgnoredFiles == {"i"}

\* an undefined commit id or hash
NoCommit == 0

NullV == "null"
NotLatestMessage == "The specified commit is not the latest commit. Cannot undo."
UndoErrorMessage == "Error undoing last commit"

\* a commit with one parent, the commit before it in the history
Commit(hash, files) == [hash |-> hash, files |-> files, parents |-> 1]
\* a commit without a parent
RootCommit(hash, files) == [hash |-> hash, files |-> files, parents |-> 0]
\* a merge commit: its first parent is the commit before it in the history
MergeCommit(hash, files) == [hash |-> hash, files |-> files, parents |-> 2]

\* the hash of a history's HEAD; a repository without commits has none
HeadOf(history) == IF Len(history) = 0 THEN NoCommit ELSE history[Len(history)].hash

GitIdle ==
    [pc |-> "idle", commitId |-> NoCommit, result |-> "", latest |-> NoCommit,
     inited |-> FALSE, target |-> 0, headBefore |-> NoCommit, removed |-> NoCommit,
     notice |-> [kind |-> "none", text |-> ""]]

\* a commit operation: its position, which method it is, and what it has read,
\* done and returned so far: before, the changed and staged paths as status() showed
\* them; wrote, the paths applyChangeSet has written; changes, state.indexChanges as
\* read after add(); made, the hashes of the
\* commits it created; failed, whether a git operation it awaited has failed;
\* outcome, whether it has returned a value or has been rejected
CommitIdle ==
    [pc |-> "idle", kind |-> "", inited |-> FALSE, before |-> {}, unclean |-> FALSE,
     wrote |-> {}, changes |-> {}, count |-> 0, made |-> {}, failed |-> FALSE, outcome |-> "",
     result |-> NoCommit]

\* the history of the i-th repository when the extension starts: a root commit and
\* one commit on top of it
InitialHistory(i) == <<RootCommit(10 * i, {}), Commit(10 * i + 1, {"f"})>>

\* a getUdiffFromCommit call: its position, its argument, the commit it has
\* resolved, whether and against which base it has called diffBetween, its result
UdiffIdle ==
    [pc |-> "idle", commit |-> NoCommit, inited |-> FALSE, target |-> NoCommit,
     parents |-> 0, diffed |-> FALSE, base |-> NoCommit, result |-> {}]

GitInit ==
    /\ repo = 0
    /\ \E n \in 1..2 :
        /\ repositories = [i \in 1..n |-> InitialHistory(i)]
        /\ workspaceRepo \in 1..n
    /\ workingTree = {}
    /\ indexChanges = {}
    /\ nextHash = 1
    /\ undo = GitIdle
    /\ commitOp = CommitIdle
    /\ udiff = UdiffIdle

\* what GitManager.init returns: an error if the git extension is missing, if it
\* has no repository, or if none of its repositories is at the workspace root
\* (this.workspaceRoot is always set: the constructor throws without it); undefined
\* when it has found the repository
initResult ==
    IF ~gitExtension THEN "Git extension not found"
    ELSE IF Len(repositories) = 0 THEN "No git repositories found"
    ELSE IF workspaceRepo = 0 THEN "No git repository found at workspace root"
    ELSE UndefinedV

\* GitManager.init: this.repo becomes the repository at the workspace root
init ==
    /\ repo = 0
    /\ initResult = UndefinedV
    /\ repo' = workspaceRepo
    /\ UNCHANGED <<repositories, workspaceRepo, workingTree, indexChanges, nextHash, undo,
                   commitOp>>

\* the user edits a file of the workspace
UserEdit(f) ==
    /\ f \notin workingTree
    /\ workingTree' = workingTree \cup {f}
    /\ UNCHANGED <<repo, repositories, workspaceRepo, indexChanges, nextHash, undo, commitOp>>

\* the user stages a changed file of the workspace (git add outside the extension)
UserStage(f) ==
    /\ f \in workingTree \ IgnoredFiles
    /\ workingTree' = workingTree \ {f}
    /\ indexChanges' = indexChanges \cup {f}
    /\ UNCHANGED <<repo, repositories, workspaceRepo, nextHash, undo, commitOp>>

\* getLatestCommitHash: checkInit() is not awaited, so it throws nothing; with
\* this.repo undefined the property read throws, which is caught: undefined; a
\* repository without commits makes getCommit('HEAD') fail: undefined as well
getLatestCommitHash ==
    IF repo = 0 THEN NoCommit ELSE HeadOf(repositories[repo])

\* undoLastCommit(commitId) up to its suspension on getLatestCommitHash
UndoStart(commitId) ==
    /\ undo.pc \in {"idle", "done"}
    /\ undo' = [GitIdle EXCEPT !.pc = "check", !.commitId = commitId]
    /\ UNCHANGED <<repo, repositories, workspaceRepo, workingTree, indexChanges, nextHash,
                   commitOp>>

\* the value rpcUndoLatestCommit gets from this._gitManager.undoLastCommit(commitId),
\* which it does not await: the promise of the result
PromiseV == "[object Promise]"

\* the editor message rpcUndoLatestCommit shows for errMessage: the information
\* message if it is null, otherwise the failure message with errMessage appended
undoNotice(errMessage) ==
    IF errMessage = NullV
    THEN [kind |-> "information", text |-> "Last commit has been undone by hard reset."]
    ELSE [kind |-> "error", text |-> errMessage]

\* rpcUndoLatestCommit(commitId): undoLastCommit runs up to its suspension on
\* getLatestCommitHash and hands back its promise; the handler compares that value
\* with null, shows the message and returns
rpcUndoLatestCommit(commitId) ==
    /\ undo.pc \in {"idle", "done"}
    /\ undo' = [GitIdle EXCEPT !.pc = "check", !.commitId = commitId,
                               !.notice = undoNotice(PromiseV)]
    /\ UNCHANGED <<repo, repositories, workspaceRepo, workingTree, indexChanges, nextHash,
                   commitOp>>

\* const isLatest = (await this.getLatestCommitHash()) === commitId
isLatest(latest, commitId) == latest = commitId

\* getLatestCommitHash has answered: a commit id that is not the latest is refused;
\* otherwise reset("HEAD~1", true) is started on git.repositories[0]
UndoCheck ==
    /\ undo.pc = "check"
    /\ LET latest == getLatestCommitHash IN
        IF ~isLatest(latest, undo.commitId)
        THEN undo' = [undo EXCEPT !.pc = "done", !.latest = latest, !.inited = (repo # 0),
                                  !.result = NotLatestMessage]
        ELSE undo' = [undo EXCEPT !.pc = "reset", !.latest = latest, !.inited = (repo # 0)]
    /\ UNCHANGED <<repo, repositories, workspaceRepo, workingTree, indexChanges, nextHash,
                   commitOp>>

\* the repository undoLastCommit resets: git.repositories[0]
resetTarget == 1

\* the reset runs: HEAD~1 exists only if HEAD has a parent, otherwise the reset
\* fails and the catch reports it; a hard reset also discards the working tree
\* and index changes of the repository it runs on
UndoReset ==
    /\ undo.pc = "reset"
    /\ LET history == repositories[resetTarget] IN
        IF Len(history) >= 2
        THEN /\ repositories' = [repositories EXCEPT
                                    ![resetTarget] = SubSeq(history, 1, Len(history) - 1)]
             /\ undo' = [undo EXCEPT !.pc = "done", !.result = NullV,
                                     !.target = resetTarget,
                                     !.headBefore = HeadOf(repositories[workspaceRepo]),
                                     !.removed = HeadOf(history)]
             /\ IF resetTarget = workspaceRepo
                THEN workingTree' = workingTree \cap IgnoredFiles /\ indexChanges' = {}
                ELSE UNCHANGED <<workingTree, indexChanges>>
        ELSE /\ undo' = [undo EXCEPT !.pc = "done", !.result = UndoErrorMessage,
                                     !.headBefore = HeadOf(repositories[workspaceRepo])]
             /\ UNCHANGED <<repositories, workingTree, indexChanges>>
    /\ UNCHANGED <<repo, workspaceRepo, nextHash, commitOp>>

\* commitChangeSet up to its suspension on status(): checkInit() is not awaited;
\* with this.repo undefined the property read throws and the catch returns null
CommitChangeSetStart ==
    /\ commitOp.pc \in {"idle", "done"}
    /\ nextHash <= MaxCommits
    /\ IF repo = 0
       THEN commitOp' = [CommitIdle EXCEPT !.pc = "done", !.kind = "changeSet",
                                           !.outcome = "returned"]
       ELSE commitOp' = [CommitIdle EXCEPT !.pc = "status", !.kind = "changeSet",
                                           !.inited = TRUE]
    /\ UNCHANGED <<repo, repositories, workspaceRepo, workingTree, indexChanges, nextHash,
                   undo>>

\* repoIsClean(): no working tree change and no index change (ignored paths are not
\* among the working tree changes)
repoIsClean == (workingTree \ IgnoredFiles) \cup indexChanges = {}

\* A faulty commitChangeSet that gives up on an unclean repository.
uncleanBlocksAlways(clean) == ~clean

\* if (!this.repoIsClean()) console.warn(...): an unclean repository is only warned
\* about, it never stops the operation
uncleanBlocks(clean) == FALSE

\* status() has answered; applyChangeSet writes the files; add() is started
CommitChangeSetApply ==
    /\ commitOp.pc = "status" /\ commitOp.kind = "changeSet"
    /\ IF uncleanBlocks(repoIsClean)
       THEN /\ commitOp' = [commitOp EXCEPT !.pc = "done", !.unclean = ~repoIsClean,
                                            !.before = workingTree \cup indexChanges,
                                            !.outcome = "returned"]
            /\ UNCHANGED workingTree
       ELSE /\ workingTree' = workingTree \cup (ChangeSetFiles \ indexChanges)
            /\ commitOp' = [commitOp EXCEPT !.pc = "add", !.unclean = ~repoIsClean,
                                            !.before = workingTree \cup indexChanges,
                                            !.wrote = ChangeSetFiles]
    /\ UNCHANGED <<repo, repositories, workspaceRepo, indexChanges, nextHash, undo>>

\* add() has staged the changeset's files; commit(message, {empty: true}) is started
CommitChangeSetAdd ==
    /\ commitOp.pc = "add" /\ commitOp.kind = "changeSet"
    /\ indexChanges' = indexChanges \cup (workingTree \cap ChangeSetFiles)
    /\ workingTree' = workingTree \ ChangeSetFiles
    /\ commitOp' = [commitOp EXCEPT !.pc = "commit"]
    /\ UNCHANGED <<repo, repositories, workspaceRepo, nextHash, undo>>

\* repository.commit: the index becomes a new commit on HEAD of this.repo
commit ==
    /\ repositories' = [repositories EXCEPT ![repo] = Append(@, Commit(100 + nextHash,
                                                                        indexChanges))]
    /\ indexChanges' = {}
    /\ nextHash' = nextHash + 1

\* the commit has landed; status() is started
CommitChangeSetCommit ==
    /\ commitOp.pc = "commit" /\ commitOp.kind = "changeSet"
    /\ commit
    /\ commitOp' = [commitOp EXCEPT !.pc = "final", !.made = @ \cup {100 + nextHash}]
    /\ UNCHANGED <<repo, workspaceRepo, workingTree, undo>>

\* status() has answered: the new commit is state.HEAD.commit as it is now
CommitChangeSetDone ==
    /\ commitOp.pc = "final" /\ commitOp.kind = "changeSet"
    /\ commitOp' = [commitOp EXCEPT !.pc = "done", !.outcome = "returned",
                                    !.result = HeadOf(repositories[repo])]
    /\ UNCHANGED <<repo, repositories, workspaceRepo, workingTree, indexChanges, nextHash,
                   undo>>

\* the git operation commitChangeSet is suspended on (status, add, commit, status)
\* fails: the catch logs the error and returns null
CommitChangeSetFail ==
    /\ commitOp.pc \in {"status", "add", "commit", "final"} /\ commitOp.kind = "changeSet"
    /\ commitOp' = [commitOp EXCEPT !.pc = "done", !.failed = TRUE, !.outcome = "returned",
                                    !.result = NoCommit]
    /\ UNCHANGED <<repo, repositories, workspaceRepo, workingTree, indexChanges, nextHash,
                   undo>>

\* commitLocalChanges up to its suspension on status(): there is no try/catch, so
\* with this.repo undefined the call is rejected
CommitLocalChangesStart ==
    /\ commitOp.pc \in {"idle", "done"}
    /\ nextHash <= MaxCommits
    /\ IF repo = 0
       THEN commitOp' = [CommitIdle EXCEPT !.pc = "done", !.kind = "local",
                                           !.outcome = "rejected"]
       ELSE commitOp' = [CommitIdle EXCEPT !.pc = "status", !.kind = "local",
                                           !.inited = TRUE]
    /\ UNCHANGED <<repo, repositories, workspaceRepo, workingTree, indexChanges, nextHash,
                   undo>>

\* changes.filter(change => !change.gitIgnored)
nonIgnoredChanges(changes) == changes \ IgnoredFiles

\* status() and diffWithHEAD() have answered: the non-ignored changed paths are
\* staged, and state.indexChanges is read
CommitLocalChangesAdd ==
    /\ commitOp.pc = "status" /\ commitOp.kind = "local"
    /\ indexChanges' = indexChanges \cup nonIgnoredChanges(workingTree)
    /\ workingTree' = workingTree \ nonIgnoredChanges(workingTree)
    /\ commitOp' = [commitOp EXCEPT !.pc = "commit",
                                    !.before = workingTree \cup indexChanges,
                                    !.changes = indexChanges',
                                    !.count = Cardinality(indexChanges')]
    /\ UNCHANGED <<repo, repositories, workspaceRepo, nextHash, undo>>

\* A faulty guard that commits whatever the index holds.
shouldCommitAlways(count) == TRUE

\* if (indexChanges.length > 0)
shouldCommit(count) == count > 0

\* a non-empty index is committed (after the diff preview and the message have been
\* produced); status(); the number of staged changes is returned. commit() without
\* {empty: true} fails when nothing is staged at that moment, and nothing catches it
CommitLocalChangesCommit ==
    /\ commitOp.pc = "commit" /\ commitOp.kind = "local"
    /\ IF shouldCommit(commitOp.count)
       THEN IF indexChanges # {}
            THEN /\ commit
                 /\ commitOp' = [commitOp EXCEPT !.pc = "done", !.outcome = "returned",
                                                 !.made = @ \cup {100 + nextHash}]
            ELSE /\ UNCHANGED <<repositories, indexChanges, nextHash>>
                 /\ commitOp' = [commitOp EXCEPT !.pc = "done", !.outcome = "rejected"]
       ELSE /\ UNCHANGED <<repositories, indexChanges, nextHash>>
            /\ commitOp' = [commitOp EXCEPT !.pc = "done", !.outcome = "returned"]
    /\ UNCHANGED <<repo, workspaceRepo, workingTree, undo>>

\* the git operation commitLocalChanges is suspended on fails: nothing catches it,
\* the call is rejected
CommitLocalChangesFail ==
    /\ commitOp.pc \in {"status", "commit"} /\ commitOp.kind = "local"
    /\ commitOp' = [commitOp EXCEPT !.pc = "done", !.outcome = "rejected", !.failed = TRUE]
    /\ UNCHANGED <<repo, repositories, workspaceRepo, workingTree, indexChanges, nextHash,
                   undo>>

\* repository.getCommit(sha): the commit of the history with that hash; none makes
\* the call reject
getCommit(history, sha) ==
    { history[k] : k \in { j \in 1..Len(history) : history[j].hash = sha } }

\* the commit that sha^ names: the one before sha in the history, if any
ParentOf(history, sha) ==
    LET at == { j \in 1..Len(history) : history[j].hash = sha /\ j > 1 } IN
    IF at = {} THEN NoCommit ELSE history[(CHOOSE j \in at : TRUE) - 1].hash

\* a commit hash no repository has
UnknownHash == 999

\* getUdiffFromCommit(commit) up to its suspension on getCommit('HEAD'): checkInit()
\* is not awaited; with this.repo undefined the property read throws and the catch
\* returns ""
GetUdiffStart(commitArg) ==
    /\ udiff.pc \in {"idle", "done"}
    /\ IF repo = 0
       THEN udiff' = [UdiffIdle EXCEPT !.pc = "done", !.commit = commitArg]
       ELSE udiff' = [UdiffIdle EXCEPT !.pc = "head", !.commit = commitArg, !.inited = TRUE]
    /\ UNCHANGED <<repo, repositories, workspaceRepo, workingTree, indexChanges, nextHash,
                   undo, commitOp>>

\* getCommit('HEAD').catch(() => null) has answered: without a HEAD commit '' is
\* returned; an absent commit argument becomes the hash of HEAD; getCommit(commit)
\* is started
GetUdiffHead ==
    /\ udiff.pc = "head"
    /\ LET headHash == HeadOf(repositories[repo]) IN
        IF headHash = NoCommit
        THEN udiff' = [udiff EXCEPT !.pc = "done", !.result = {}]
        ELSE udiff' = [udiff EXCEPT !.pc = "parents",
                                    !.target = IF udiff.commit = NoCommit THEN headHash
                                               ELSE udiff.commit]
    /\ UNCHANGED <<repo, repositories, workspaceRepo, workingTree, indexChanges, nextHash,
                   undo, commitOp>>

\* A faulty parent check that lets a commit without a parent through.
hasOneParentAtMost(commitObj) == commitObj.parents <= 1

\* commitObj.parents?.length === 1
hasOneParent(commitObj) == commitObj.parents = 1

\* getCommit(commit) has answered: an unknown commit rejects and the catch returns
\* ""; a commit with other than one parent returns ""; otherwise
\* diffBetween(commit + "^", commit) is started
GetUdiffParents ==
    /\ udiff.pc = "parents"
    /\ LET found == getCommit(repositories[repo], udiff.target) IN
        IF found = {}
        THEN udiff' = [udiff EXCEPT !.pc = "done", !.result = {}]
        ELSE LET commitObj == CHOOSE cm \in found : TRUE IN
             IF ~hasOneParent(commitObj)
             THEN udiff' = [udiff EXCEPT !.pc = "done", !.parents = commitObj.parents,
                                         !.result = {}]
             ELSE udiff' = [udiff EXCEPT !.pc = "diff", !.parents = commitObj.parents,
                                         !.diffed = TRUE,
                                         !.base = ParentOf(repositories[repo], udiff.target)]
    /\ UNCHANGED <<repo, repositories, workspaceRepo, workingTree, indexChanges, nextHash,
                   undo, commitOp>>

\* diffBetween has answered with the changes, and again for each changed path: the
\* per-path diffs are joined; a base that does not exist makes diffBetween reject
\* and the catch returns ""
GetUdiffDiff ==
    /\ udiff.pc = "diff"
    /\ LET found == getCommit(repositories[repo], udiff.target) IN
        IF udiff.base = NoCommit \/ found = {}
        THEN udiff' = [udiff EXCEPT !.pc = "done", !.result = {}]
        ELSE udiff' = [udiff EXCEPT !.pc = "done",
                          !.result = { [path |-> f, base |-> udiff.base, commit |-> udiff.target] :
                                       f \in (CHOOSE cm \in found : TRUE).files }]
    /\ UNCHANGED <<repo, repositories, workspaceRepo, workingTree, indexChanges, nextHash,
                   undo, commitOp>>

---------------------------------------------------------------------------
\* HelloWorldPanel: the getGitConfigErrors handler

\* a run of the handler: its position, what init has reported inside its promise,
\* whether init is still suspended on status(), the string the handler returned
ConfigIdle ==
    [pc |-> "idle", initResult |-> UndefinedV, initPending |-> FALSE, result |-> ""]

\* typeof v for the values the handler may hold
TypeOf(v) ==
    IF v = PromiseV THEN "object" ELSE IF v = UndefinedV THEN "undefined" ELSE "string"

\* return typeof result === "string" ? result : ""
gitConfigErrors(result) == IF TypeOf(result) = "string" THEN result ELSE ""

\* rpcGetGitConfigErrors: init() runs up to its first await, or to its return, and
\* hands back its promise, which the handler does not await; the handler returns
\* what gitConfigErrors makes of that value
rpcGetGitConfigErrors ==
    /\ configOp.pc \in {"idle", "done"}
    /\ repo' = IF initResult = UndefinedV THEN workspaceRepo ELSE repo
    /\ configOp' = [pc |-> "done", initResult |-> initResult,
                    initPending |-> (initResult = UndefinedV),
                    result |-> gitConfigErrors(PromiseV)]
    /\ UNCHANGED <<repositories, workspaceRepo, workingTree, indexChanges, nextHash, undo,
                   commitOp, udiff, gitExtension, polling>>

\* status() has answered inside init: its promise is fulfilled with undefined
InitStatusDone ==
    /\ configOp.initPending
    /\ configOp' = [configOp EXCEPT !.initPending = FALSE]
    /\ UNCHANGED <<gitVars, gitExtension, polling>>

\* the git extension becomes available after the panel has started
GitExtensionActivates ==
    /\ ~gitExtension
    /\ gitExtension' = TRUE
    /\ UNCHANGED <<gitVars, polling, configOp>>

\* the interval of the constructor fires: without the git extension it only logs;
\* with it the interval is cleared and init() is called, whose error is only logged
pollForGitExtension ==
    /\ polling
    /\ polling' = ~gitExtension
    /\ repo' = IF initResult = UndefinedV THEN workspaceRepo ELSE repo
    /\ UNCHANGED <<repositories, workspaceRepo, workingTree, indexChanges, nextHash, undo,
                   commitOp, udiff, gitExtension, configOp>>

\* how many repositories the git extension opens at most
MaxRepositories == 3

\* the git extension opens a repository, at the workspace root or elsewhere
RepositoryOpened(atRoot) ==
    /\ gitExtension
    /\ Len(repositories) < MaxRepositories
    /\ atRoot => workspaceRepo = 0
    /\ repositories' = Append(repositories, InitialHistory(Len(repositories) + 1))
    /\ workspaceRepo' = IF atRoot THEN Len(repositories) + 1 ELSE workspaceRepo
    /\ UNCHANGED <<repo, workingTree, indexChanges, nextHash, undo, commitOp, udiff,
                   configVars>>

---------------------------------------------------------------------------
\* Specifications

RpcInit ==
    /\ messageId = 0
    /\ pendingMessages = {}
    /\ settleLog = [c \in CallIds |-> <<>>]
    /\ toHost = <<>>
    /\ toUI = <<>>
    /\ uiLog = <<>>
    /\ strays = {}
    /\ DEV_MODE \in BOOLEAN
    /\ hcall = [c \in CallIds |-> HostIdle]

ChatInit ==
    /\ conversation = [t \in TaskIds |-> <<>>]
    /\ statusMessage = ""
    /\ activeTasks = ActiveTaskIds
    /\ taskOp = TaskOpIdle

GitQuiet ==
    /\ repo = 0
    /\ repositories = <<>>
    /\ workspaceRepo = 0
    /\ workingTree = {}
    /\ indexChanges = {}
    /\ nextHash = 1
    /\ undo = GitIdle
    /\ commitOp = CommitIdle
    /\ udiff = UdiffIdle

\* the git extension is there and no getGitConfigErrors handler has run
ConfigQuiet ==
    /\ gitExtension = TRUE
    /\ polling = TRUE
    /\ configOp = ConfigIdle

Init == RpcInit /\ ChatInit /\ GitQuiet /\ ConfigQuiet

NoParams == [taskId |-> ""]

\* ids an unmatched response may carry: 0 is never issued
StrayIds == 0..MaxCalls

Next ==
    \/ \E method \in KnownMethods \cup {UnknownMethod} :
          run(method, NoParams) /\ UNCHANGED <<chatVars, gitVars, taskVars, configVars>>
    \/ ReceiveCall
    \/ \E c \in CallIds, v \in ResultValues : HandlerReturn(c, v)
    \/ \E c \in CallIds, e \in ThrownValues : HandlerThrow(c, e)
    \/ \E c \in CallIds : ListenerThen(c)
    \/ \E c \in CallIds : ListenerCatch(c)
    \/ Deliver
    \/ \E id \in StrayIds, error \in {UndefinedV, "forged"} :
          StrayResponse(id, "forged", error)

Spec == Init /\ [][Next]_vars

\* The callbacks the listener has chained on a settled handleRPCCall promise are run
\* by the event loop; nothing makes a handler return or throw, so a handler may stay
\* suspended forever.
ListenerFairness ==
    \A c \in CallIds : WF_vars(ListenerThen(c)) /\ WF_vars(ListenerCatch(c))

\* The steps of the bridge without forged responses
NextIsolated ==
    \/ \E method \in KnownMethods \cup {UnknownMethod} :
          run(method, NoParams) /\ UNCHANGED <<chatVars, gitVars, taskVars, configVars>>
    \/ ReceiveCall
    \/ \E c \in CallIds, v \in ResultValues : HandlerReturn(c, v)
    \/ \E c \in CallIds, e \in ThrownValues : HandlerThrow(c, e)
    \/ \E c \in CallIds : ListenerThen(c)
    \/ \E c \in CallIds : ListenerCatch(c)
    \/ Deliver

SpecIsolated == Init /\ [][NextIsolated]_vars /\ ListenerFairness

\* The chat specification follows the host only: the transport is FIFO, so the webview
\* receives the messages of toUI in the order the host has posted them.
\* what respondBot throws: an Error with a message, an Error with an empty message,
\* undefined
BotThrownValues == { e \in ThrownValues : e.kind # "String" }

NextChat ==
    \/ \E taskId \in TaskIds :
          /\ messageId < MaxChatCalls
          /\ run("chatMessage", [taskId |-> taskId])
          /\ UNCHANGED <<chatVars, gitVars, taskVars, configVars>>
    \/ ReceiveCall
    \/ \E c \in CallIds : ChatHumanDone(c)
    \/ \E c \in CallIds : BotPartial(c)
    \/ \E c \in CallIds : BotDone(c)
    \/ \E c \in CallIds, e \in BotThrownValues : BotFail(c, e)
    \/ \E c \in CallIds : ChatErrorReset(c)
    \/ \E c \in CallIds : ListenerThen(c)
    \/ \E c \in CallIds : ListenerCatch(c)

SpecChat == Init /\ [][NextChat]_vars

\* The same-task specification issues every chatMessage call for one active task, so
\* that the handlers of several calls are suspended on the same task at once.
SharedTask == "T1"

NextSameTask ==
    \/ /\ run("chatMessage", [taskId |-> SharedTask])
       /\ UNCHANGED <<chatVars, gitVars, taskVars, configVars>>
    \/ ReceiveCall
    \/ \E c \in CallIds : ChatHumanDone(c)
    \/ \E c \in CallIds : BotPartial(c)
    \/ \E c \in CallIds : BotDone(c)
    \/ \E c \in CallIds : ListenerThen(c)

SpecSameTask == Init /\ [][NextSameTask]_vars

\* every commit hash of the repositories
AllHashes == UNION { { repositories[i][k].hash : k \in 1..Len(repositories[i]) } :
                     i \in 1..Len(repositories) }

RpcQuiet ==
    /\ messageId = 0
    /\ pendingMessages = {}
    /\ settleLog = [c \in CallIds |-> <<>>]
    /\ toHost = <<>>
    /\ toUI = <<>>
    /\ uiLog = <<>>
    /\ strays = {}
    /\ DEV_MODE = FALSE
    /\ hcall = [c \in CallIds |-> HostIdle]

InitGit == RpcQuiet /\ ChatInit /\ GitInit /\ ConfigQuiet

NextGit ==
    \/ init /\ UNCHANGED <<rpcVars, chatVars, taskVars, configVars, udiff>>
    \/ \E f \in Files : UserEdit(f) /\ UNCHANGED <<rpcVars, chatVars, taskVars, configVars, udiff>>
    \/ \E commitId \in AllHashes \cup {NoCommit} :
          UndoStart(commitId) /\ UNCHANGED <<rpcVars, chatVars, taskVars, configVars, udiff>>
    \/ UndoCheck /\ UNCHANGED <<rpcVars, chatVars, taskVars, configVars, udiff>>
    \/ UndoReset /\ UNCHANGED <<rpcVars, chatVars, taskVars, configVars, udiff>>
    \/ CommitChangeSetStart /\ UNCHANGED <<rpcVars, chatVars, taskVars, configVars, udiff>>
    \/ CommitChangeSetApply /\ UNCHANGED <<rpcVars, chatVars, taskVars, configVars, udiff>>
    \/ CommitChangeSetAdd /\ UNCHANGED <<rpcVars, chatVars, taskVars, configVars, udiff>>
    \/ CommitChangeSetCommit /\ UNCHANGED <<rpcVars, chatVars, taskVars, configVars, udiff>>
    \/ CommitChangeSetDone /\ UNCHANGED <<rpcVars, chatVars, taskVars, configVars, udiff>>
    \/ CommitLocalChangesStart /\ UNCHANGED <<rpcVars, chatVars, taskVars, configVars, udiff>>
    \/ CommitLocalChangesAdd /\ UNCHANGED <<rpcVars, chatVars, taskVars, configVars, udiff>>
    \/ CommitLocalChangesCommit /\ UNCHANGED <<rpcVars, chatVars, taskVars, configVars, udiff>>

SpecGit == InitGit /\ [][NextGit]_vars

\* The commit specification runs the commit operations one at a time, with the user
\* editing and staging files and with git operations that may fail; no undo runs.
NextCommit ==
    \/ init /\ UNCHANGED <<rpcVars, chatVars, taskVars, configVars, udiff>>
    \/ \E f \in Files : UserEdit(f) /\ UNCHANGED <<rpcVars, chatVars, taskVars, configVars, udiff>>
    \/ \E f \in Files : UserStage(f) /\ UNCHANGED <<rpcVars, chatVars, taskVars, configVars, udiff>>
    \/ CommitChangeSetStart /\ UNCHANGED <<rpcVars, chatVars, taskVars, configVars, udiff>>
    \/ CommitChangeSetApply /\ UNCHANGED <<rpcVars, chatVars, taskVars, configVars, udiff>>
    \/ CommitChangeSetAdd /\ UNCHANGED <<rpcVars, chatVars, taskVars, configVars, udiff>>
    \/ CommitChangeSetCommit /\ UNCHANGED <<rpcVars, chatVars, taskVars, configVars, udiff>>
    \/ CommitChangeSetDone /\ UNCHANGED <<rpcVars, chatVars, taskVars, configVars, udiff>>
    \/ CommitChangeSetFail /\ UNCHANGED <<rpcVars, chatVars, taskVars, configVars, udiff>>
    \/ CommitLocalChangesStart /\ UNCHANGED <<rpcVars, chatVars, taskVars, configVars, udiff>>
    \/ CommitLocalChangesAdd /\ UNCHANGED <<rpcVars, chatVars, taskVars, configVars, udiff>>
    \/ CommitLocalChangesCommit /\ UNCHANGED <<rpcVars, chatVars, taskVars, configVars, udiff>>
    \/ CommitLocalChangesFail /\ UNCHANGED <<rpcVars, chatVars, taskVars, configVars, udiff>>

SpecCommit == InitGit /\ [][NextCommit]_vars

\* The undo specification runs the undoLatestCommit handler on the adapter, before
\* and after init, with the id of any commit or none.
NextUndoRpc ==
    \/ init /\ UNCHANGED <<rpcVars, chatVars, taskVars, configVars, udiff>>
    \/ \E commitId \in AllHashes \cup {NoCommit} :
          /\ rpcUndoLatestCommit(commitId)
          /\ UNCHANGED <<rpcVars, chatVars, taskVars, configVars, udiff>>
    \/ UndoCheck /\ UNCHANGED <<rpcVars, chatVars, taskVars, configVars, udiff>>
    \/ UndoReset /\ UNCHANGED <<rpcVars, chatVars, taskVars, configVars, udiff>>

SpecUndoRpc == InitGit /\ [][NextUndoRpc]_vars

\* The configuration specification runs the getGitConfigErrors handler while the git
\* extension comes up and opens its repositories.
InitConfig ==
    /\ RpcQuiet
    /\ ChatInit
    /\ GitQuiet
    /\ gitExtension \in BOOLEAN
    /\ polling = TRUE
    /\ configOp = ConfigIdle

NextConfig ==
    \/ rpcGetGitConfigErrors /\ UNCHANGED <<rpcVars, chatVars, taskVars>>
    \/ InitStatusDone /\ UNCHANGED <<rpcVars, chatVars, taskVars>>
    \/ GitExtensionActivates /\ UNCHANGED <<rpcVars, chatVars, taskVars>>
    \/ pollForGitExtension /\ UNCHANGED <<rpcVars, chatVars, taskVars>>
    \/ \E atRoot \in BOOLEAN :
          RepositoryOpened(atRoot) /\ UNCHANGED <<rpcVars, chatVars, taskVars>>

SpecConfig == InitConfig /\ [][NextConfig]_vars

\* The diff specification runs getUdiffFromCommit on a repository whose history is
\* any of: no commit, a root commit, a root commit followed by commits and merges.
DiffCommits ==
    { [hash |-> h, files |-> fs, parents |-> n] :
        h \in 11..(10 + MaxHistory), fs \in {{}, {"f"}}, n \in 0..2 }

DiffHistories ==
    UNION { { history \in [1..n -> DiffCommits] :
                \A k \in 1..n : /\ history[k].hash = 10 + k
                                /\ (k = 1) = (history[k].parents = 0) } :
            n \in 0..MaxHistory }

InitDiff ==
    /\ RpcQuiet
    /\ ChatInit
    /\ ConfigQuiet
    /\ repo = 0
    /\ \E history \in DiffHistories : repositories = <<history>>
    /\ workspaceRepo = 1
    /\ workingTree = {}
    /\ indexChanges = {}
    /\ nextHash = 1
    /\ undo = GitIdle
    /\ commitOp = CommitIdle
    /\ udiff = UdiffIdle

NextDiff ==
    \/ init /\ UNCHANGED <<rpcVars, chatVars, taskVars, configVars, udiff>>
    \/ \E commitArg \in AllHashes \cup {NoCommit, UnknownHash} :
          GetUdiffStart(commitArg) /\ UNCHANGED <<rpcVars, chatVars, taskVars, configVars>>
    \/ GetUdiffHead /\ UNCHANGED <<rpcVars, chatVars, taskVars, configVars>>
    \/ GetUdiffParents /\ UNCHANGED <<rpcVars, chatVars, taskVars, configVars>>
    \/ GetUdiffDiff /\ UNCHANGED <<rpcVars, chatVars, taskVars, configVars>>

SpecDiff == InitDiff /\ [][NextDiff]_vars

\* The task specification runs the activateTask and deactivateTask handlers, the
\* task manager succeeding or reporting an error.
NextTasks ==
    \/ \E method \in {"activateTask", "deactivateTask"}, taskId \in TaskIds :
          TaskOpStart(method, taskId) /\ UNCHANGED <<rpcVars, chatVars, gitVars, configVars>>
    \/ \E errorMessage \in TaskErrors \cup {UndefinedV} :
          ActivateTaskDone(errorMessage) /\ UNCHANGED <<rpcVars, chatVars, gitVars, configVars>>
    \/ \E errMessage \in TaskErrors \cup {UndefinedV} :
          DeactivateTaskDone(errMessage) /\ UNCHANGED <<rpcVars, chatVars, gitVars, configVars>>

SpecTasks == Init /\ [][NextTasks]_vars

---------------------------------------------------------------------------
\* What the host has posted to the webview so far, in order
Sent == uiLog \o toUI

ResponseIdx(log, c) == { i \in 1..Len(log) : log[i].type = "rpcResponse" /\ log[i].id = c }
PushIdx(log, c) == { i \in 1..Len(log) : log[i].type = "updateTask" /\ log[i].call = c }
ResetIdx(log, c) ==
    { i \in 1..Len(log) : log[i].type = "updateStatusMessage" /\ log[i].call = c
                          /\ log[i].text = "" }

\* the settlement handleMessage owes to a response
SettlementOf(m) ==
    IF Truthy(m.error)
    THEN [kind |-> "reject", value |-> m.error, from |-> m.id]
    ELSE [kind |-> "resolve", value |-> m.result, from |-> m.id]

---------------------------------------------------------------------------
\* Claims about the RPC bridge (specification Spec)

\* C1: whatever the number of outstanding calls and the arrival order of their
\* responses, the promise of each call is settled at most once, exactly once as
\* soon as its response has arrived, and only by the response that carries its own
\* id, with that response's error or result.
C1_SettledOnceByOwnResponse ==
    \A c \in CallIds :
        /\ Len(settleLog[c]) <= 1
        /\ ResponseIdx(uiLog, c) # {} => Len(settleLog[c]) = 1
        /\ \A k \in 1..Len(settleLog[c]) :
              /\ settleLog[c][k].from = c
              /\ \E i \in ResponseIdx(uiLog, c) : settleLog[c][k] = SettlementOf(uiLog[i])

\* C1 witness: two calls are settled whose responses arrived in the reverse of the
\* order the calls were issued in.
C1_Witness ==
    /\ Len(settleLog[1]) = 1 /\ Len(settleLog[2]) = 1
    /\ \E i \in ResponseIdx(uiLog, 2), j \in ResponseIdx(uiLog, 1) : i < j

\* C2: handling an rpcResponse whose id has no pending entry (never issued, or
\* already answered) settles no promise and leaves the pending set, hence every
\* other pending call, as it was.
C2_UnmatchedResponseDropped ==
    [][strays' # strays => (pendingMessages' = pendingMessages /\ settleLog' = settleLog)]_vars

\* C2 witness: a response with an id never issued and a duplicate of an answered
\* call's response have been handled while another call was still pending.
C2_Witness ==
    /\ 0 \in strays
    /\ \E id \in strays : id \in 1..messageId /\ Len(settleLog[id]) = 1
    /\ pendingMessages # {}

\* C3: every call whose dispatch has come to its end, in dev mode or not, handler
\* succeeded or failed, has exactly one rpcResponse posted, with the call's id and
\* method, and no error has escaped the dispatch without one.
C3_EveryCallAnswered ==
    \A c \in CallIds :
        hcall[c].pc \in {"done", "escaped"} =>
            /\ hcall[c].pc # "escaped"
            /\ Cardinality(ResponseIdx(Sent, c)) = 1
            /\ \A i \in ResponseIdx(Sent, c) : Sent[i].method = hcall[c].method

\* C4: a call whose handler failed is never resolved as a success, and is rejected
\* once its response has arrived; a call whose handler succeeded is resolved with
\* the handler's result.
C4_FailureRejectsSuccessResolves ==
    \A c \in CallIds :
        /\ hcall[c].thrown # NoValue =>
              /\ \A k \in 1..Len(settleLog[c]) : settleLog[c][k].kind = "reject"
              /\ ResponseIdx(uiLog, c) # {} => Len(settleLog[c]) = 1
        /\ (hcall[c].thrown = NoValue /\ hcall[c].pc = "done") =>
              \A k \in 1..Len(settleLog[c]) :
                  settleLog[c][k].kind = "resolve" /\ settleLog[c][k].value = hcall[c].res

\* the ids that a call has used so far: those pending, those in flight to the host,
\* those the host has received, those settled
UsedIds ==
    pendingMessages
      \cup { toHost[i].id : i \in 1..Len(toHost) }
      \cup { c \in CallIds : hcall[c].pc # "idle" \/ settleLog[c] # <<>> }

\* C19: every step that issues a call posts exactly one Call, whose id is the new
\* value of the id counter, is greater than the counter's old value and than every
\* id used before (pending, in flight, received, or already settled and removed from
\* the pending set), and has a pending entry.
C19_IdsIncreaseNeverReused ==
    [][(messageId' # messageId \/ Len(toHost') > Len(toHost)) =>
          /\ Len(toHost') = Len(toHost) + 1
          /\ LET id == toHost'[Len(toHost')].id IN
              /\ id = messageId'
              /\ id > messageId
              /\ \A u \in UsedIds : u < id
              /\ id \in pendingMessages']_vars

\* C19 witness: the first call has been settled and removed from the pending set,
\* and a second call, issued with id 2, is pending and still in flight to the host.
C19_Witness ==
    /\ messageId = 2
    /\ settleLog[1] # <<>> /\ 1 \notin pendingMessages
    /\ 2 \in pendingMessages
    /\ \E i \in 1..Len(toHost) : toHost[i].id = 2

\* C20: a call of a method the host has no handler for, once its dispatch is over,
\* has been answered with exactly one rpcResponse, carrying the call's id and the
\* unknown-method error message and no result; no handler has returned or thrown
\* for it, and no conversation, task or repository has changed.
C20_UnknownMethodAnswered ==
    \A c \in CallIds :
        (hcall[c].method = UnknownMethod /\ hcall[c].pc \in {"done", "escaped"}) =>
            /\ Cardinality(ResponseIdx(Sent, c)) = 1
            /\ \A i \in ResponseIdx(Sent, c) :
                  /\ Sent[i].error = UnknownMethodError.message
                  /\ Sent[i].result = UndefinedV
            /\ hcall[c].thrown = UnknownMethodError
            /\ hcall[c].res = UndefinedV
            /\ conversation = [t \in TaskIds |-> <<>>]
            /\ activeTasks = ActiveTaskIds
            /\ repositories = <<>>

\* the ids of the calls issued so far
IssuedIds == 1..messageId

\* C23: in every state the pending set holds exactly the ids of the calls issued so
\* far of which the webview has handled no rpcResponse; an id enters the set only in
\* the step that issues its call and posts its Call, and leaves it only in the step
\* that handles an rpcResponse carrying that id (there is no timeout and no
\* cancellation), so a call whose response never arrives stays pending.
C23_PendingIsIssuedUnanswered ==
    /\ [](pendingMessages = { id \in IssuedIds : ResponseIdx(uiLog, id) = {} })
    /\ [][ /\ \A id \in pendingMessages' \ pendingMessages :
                /\ id = messageId' /\ id \notin IssuedIds
                /\ toHost' = Append(toHost, toHost'[Len(toHost')])
                /\ toHost'[Len(toHost')].type = "rpc" /\ toHost'[Len(toHost')].id = id
          /\ \A id \in pendingMessages \ pendingMessages' :
                /\ toUI # <<>>
                /\ Head(toUI).type = "rpcResponse" /\ Head(toUI).id = id
                /\ uiLog' = Append(uiLog, Head(toUI)) ]_vars

\* C23 witness: the first call has been answered and has left the pending set, while
\* the second call, whose dispatch is over without a response, is still pending after
\* everything the host has posted was handled.
C23_Witness ==
    /\ messageId = 2
    /\ 1 \notin pendingMessages /\ ResponseIdx(uiLog, 1) # {}
    /\ hcall[2].pc = "escaped" /\ toUI = <<>>
    /\ 2 \in pendingMessages

---------------------------------------------------------------------------
\* Claims about concurrent handlers (specification SpecIsolated)

\* C21: whatever the other calls do (their handlers suspended forever, failed, or
\* not yet started), a call whose handler has returned gets its rpcResponse posted,
\* and a call whose handler has thrown has its dispatch brought to its end; neither
\* waits for another call.
C21_HandlersIsolated ==
    \A c \in CallIds :
        /\ (hcall[c].pc = "then") ~> (ResponseIdx(Sent, c) # {})
        /\ (hcall[c].pc = "catch") ~> (hcall[c].pc \in {"done", "escaped"})

\* C21 witness: the second call has been answered while the handler of the first
\* call, received before it, is still suspended.
C21_Witness ==
    /\ hcall[1].pc = "handler"
    /\ ResponseIdx(Sent, 2) # {}

---------------------------------------------------------------------------
\* Claims about chatMessage calls (specification SpecChat)

Range(seq) == { seq[i] : i \in 1..Len(seq) }

\* whether call c has a joule of one of the authors in the conversation
HasJoule(conv, c, authors) ==
    \E k \in 1..Len(conv) : conv[k].call = c /\ conv[k].author \in authors

\* the stage of a chat call that an updateTask push of that call shows: 1 the
\* Human joule only, 2 a partial bot joule, 3 the finished turn (Bot or Error joule)
StageOf(c, m) ==
    LET conv == m.conversation IN
    IF Len(conv) > 0 /\ conv[Len(conv)].author = "BotPartial" /\ conv[Len(conv)].call = c
    THEN 2
    ELSE IF HasJoule(conv, c, {"Bot", "Error"}) THEN 3 ELSE 1

C6_ConversationNeverRegresses ==
    LET sent == Sent IN
    \A c \in CallIds :
        LET pushes == PushIdx(sent, c)
            length == [i \in pushes |-> Len(sent[i].conversation)]
        IN \A i, j \in pushes : i < j => length[i] <= length[j]

\* C6 witness: a chat call has pushed a partial snapshot and, after it, its final
\* snapshot with the Bot joule.
C6_Witness ==
    \E c \in CallIds :
        \E i, j \in PushIdx(Sent, c) :
            /\ i < j
            /\ StageOf(c, Sent[i]) = 2
            /\ Joule("Bot", c) \in Range(Sent[j].conversation)

\* C7: every chat call that has been answered had its status message reset before
\* the answer was posted, on every path.
C7_StatusResetByAnswer ==
    \A c \in CallIds :
        hcall[c].method = "chatMessage" =>
            \A r \in ResponseIdx(Sent, c) : \E i \in ResetIdx(Sent, c) : i < r

\* C8: when the bot response of a chat call on an active task has failed and the
\* dispatch of the call is over, the task's conversation holds the Error joule, and
\* the host has posted, in this order, an updateTask push carrying it, the status
\* reset, and the call's rpcResponse with an error and no result.
C8_BotFailureDualReported ==
    \A c \in CallIds :
        ( /\ hcall[c].method = "chatMessage"
          /\ hcall[c].taskId \in ActiveTaskIds
          /\ hcall[c].thrown # NoValue
          /\ hcall[c].pc \in {"done", "escaped"} ) =>
            /\ Joule("Error", c) \in Range(conversation[hcall[c].taskId])
            /\ \E i \in PushIdx(Sent, c), j \in ResetIdx(Sent, c), k \in ResponseIdx(Sent, c) :
                  /\ i < j /\ j < k
                  /\ Joule("Error", c) \in Range(Sent[i].conversation)
                  /\ Truthy(Sent[k].error)
                  /\ Sent[k].result = UndefinedV

\* C24: a chat call for a task that is not active, once its dispatch is over, has
\* been answered with one rpcResponse whose error is the message of the handler's
\* "Tried to chat with an inactive task" error; no conversation holds a turn of the
\* call and no updateTask push has been posted for it.
C24_InactiveTaskAnswered ==
    \A c \in CallIds :
        ( /\ hcall[c].method = "chatMessage"
          /\ getActiveTask(hcall[c].taskId) = "null"
          /\ hcall[c].pc \in {"done", "escaped"} ) =>
            /\ Cardinality(ResponseIdx(Sent, c)) = 1
            /\ \A i \in ResponseIdx(Sent, c) :
                  /\ Sent[i].error = InactiveTaskError.message
                  /\ Sent[i].result = UndefinedV
            /\ \A t \in TaskIds : ~HasJoule(conversation[t], c, {"Human", "Bot", "Error"})
            /\ PushIdx(Sent, c) = {}

---------------------------------------------------------------------------
\* Claims about chatMessage calls on one task (specification SpecSameTask)

\* C22: the turns of two chat calls on the same task are not interleaved in the
\* task's conversation (no turn of one call lies between two turns of the other),
\* and among the updateTask pushes of a task no push that carries a call's Human
\* turn is followed by a push that lacks it.
C22_TurnsSerializedPerTask ==
    /\ \A t \in TaskIds :
          LET conv == conversation[t] IN
          \A i, j, k \in 1..Len(conv) :
              (i < j /\ j < k /\ conv[i].call = conv[k].call) => conv[j].call = conv[i].call
    /\ \A i, j \in 1..Len(Sent) :
          ( /\ i < j
            /\ Sent[i].type = "updateTask" /\ Sent[j].type = "updateTask"
            /\ Sent[i].task = Sent[j].task ) =>
              \A d \in CallIds :
                  HasJoule(Sent[i].conversation, d, {"Human"}) =>
                      HasJoule(Sent[j].conversation, d, {"Human"})

---------------------------------------------------------------------------
\* Claims about the version-control adapter (specification SpecGit)

\* C9: an undoLastCommit(commitId) that has returned, on an initialised adapter
\* and with no commit landing while it ran, returned null if and only if commitId
\* was the HEAD of the repository, and then its hard reset removed that HEAD commit
\* from the repository; with any other id it returned an error and removed nothing.
C9_UndoIffLatest ==
    ( /\ undo.pc = "done"
      /\ undo.inited
      /\ undo.headBefore \in {NoCommit, undo.latest} ) =>
        /\ undo.result = NullV <=> undo.commitId = undo.latest
        /\ undo.result = NullV =>
              undo.target = workspaceRepo /\ undo.removed = undo.commitId
        /\ undo.result # NullV => undo.removed = NoCommit

\* C10: whatever commits run concurrently, a reset that undoLastCommit(commitId)
\* performs on the adapter's repository removes the commit commitId and no other.
C10_ResetRemovesOnlyCommitId ==
    ( /\ undo.inited
      /\ undo.removed # NoCommit
      /\ undo.target = workspaceRepo ) =>
        undo.removed = undo.commitId

\* C11: every public GitManager operation that has come to its end has returned a
\* reported value to its caller (a string, null, a commit hash, a number); none has
\* thrown or rejected, the repository handle being initialised or not.
C11_NoOperationRejects ==
    /\ commitOp.pc = "done" => commitOp.outcome = "returned"
    /\ undo.pc = "done" => undo.result \in {NullV, NotLatestMessage, UndoErrorMessage}

\* C12: while the repository handle is undefined no mutation is performed: every
\* repository keeps its history, nothing is staged, an undoLastCommit that has
\* returned (whatever its commitId argument, an undefined one included) has
\* reported an error, and a commitChangeSet that has returned has reported null.
C12_UninitialisedMutatesNothing ==
    repo = 0 =>
        /\ \A i \in 1..Len(repositories) : repositories[i] = InitialHistory(i)
        /\ indexChanges = {}
        /\ undo.pc = "done" => undo.result # NullV /\ undo.removed = NoCommit
        /\ (commitOp.pc = "done" /\ commitOp.kind = "changeSet") => commitOp.result = NoCommit

---------------------------------------------------------------------------
\* Claims about the undoLatestCommit handler (specification SpecUndoRpc)

\* C25: the handler shows no message while undoLastCommit is running; once it has
\* completed, the information message is shown if and only if it reported null, and
\* otherwise the failure message is shown with the error text it reported.
C25_NoticeFollowsUndoResult ==
    /\ undo.pc \in {"check", "reset"} => undo.notice.kind = "none"
    /\ undo.pc = "done" =>
          /\ undo.notice.kind = "information" <=> undo.result = NullV
          /\ undo.result # NullV =>
                undo.notice.kind = "error" /\ undo.notice.text = undo.result

---------------------------------------------------------------------------
\* Claims about the getGitConfigErrors handler (specification SpecConfig)

\* C26: a getGitConfigErrors handler that has returned has returned the error
\* string init reported if init failed, and has returned the empty string only if
\* init succeeded.
C26_ConfigErrorsReported ==
    configOp.pc = "done" =>
        /\ configOp.initResult # UndefinedV =>
              configOp.result = configOp.initResult /\ configOp.result # ""
        /\ configOp.result = "" => configOp.initResult = UndefinedV

---------------------------------------------------------------------------
\* Claims about the commit operations (specification SpecCommit)

\* the commit of the adapter's repository that has the given hash, as a set
CommitsWithHash(h) == getCommit(repositories[repo], h)

C13_WitnessClean ==
    /\ commitOp.pc = "done" /\ commitOp.kind = "local" /\ commitOp.outcome = "returned"
    /\ commitOp.inited
    /\ commitOp.count = 0 /\ commitOp.made = {}

\* C14: a commitChangeSet on an initialised adapter that has returned has either
\* returned the hash of a commit it created which holds the changeset's files, or
\* returned null having created no commit and leaving none of the files it wrote
\* changed in the working tree or staged in the index.
C14_ChangeSetAtomic ==
    ( /\ commitOp.pc = "done"
      /\ commitOp.kind = "changeSet"
      /\ commitOp.inited ) =>
        \/ /\ commitOp.result # NoCommit
           /\ commitOp.result \in commitOp.made
           /\ \E cm \in CommitsWithHash(commitOp.result) : ChangeSetFiles \subseteq cm.files
        \/ /\ commitOp.result = NoCommit
           /\ commitOp.made = {}
           /\ commitOp.wrote \cap (workingTree \cup indexChanges) = {}

\* C15: a commitChangeSet on an initialised adapter that found the repository
\* unclean, and whose git operations did not fail, has applied the changeset,
\* created one commit, and returned the hash of that commit, which is the new HEAD.
C15_DirtyRepoNotBlocked ==
    ( /\ commitOp.pc = "done"
      /\ commitOp.kind = "changeSet"
      /\ commitOp.inited
      /\ commitOp.unclean
      /\ ~commitOp.failed ) =>
        /\ commitOp.wrote = ChangeSetFiles
        /\ Cardinality(commitOp.made) = 1
        /\ commitOp.result # NoCommit
        /\ commitOp.result \in commitOp.made
        /\ commitOp.result = HeadOf(repositories[repo])
        /\ \E cm \in CommitsWithHash(commitOp.result) : ChangeSetFiles \subseteq cm.files

\* C15 witness: commitChangeSet has returned a new commit hash on a repository in
\* which an unrelated file was changed in the working tree before the call.
C15_Witness ==
    /\ commitOp.pc = "done" /\ commitOp.kind = "changeSet"
    /\ commitOp.unclean
    /\ "g" \in commitOp.before
    /\ "g" \in workingTree
    /\ commitOp.result # NoCommit
    /\ commitOp.result = HeadOf(repositories[repo])

\* C16: the commit a commitChangeSet has created holds exactly the changeset's
\* files, and every other path that was changed or staged before the call is still
\* changed or staged, uncommitted, when the call returns.
C16_CommitHoldsOnlyChangeSet ==
    ( /\ commitOp.pc = "done"
      /\ commitOp.kind = "changeSet"
      /\ commitOp.inited
      /\ ~commitOp.failed ) =>
        /\ \A h \in commitOp.made :
              \A cm \in CommitsWithHash(h) : cm.files = ChangeSetFiles
        /\ (commitOp.before \ ChangeSetFiles) \subseteq (workingTree \cup indexChanges)

---------------------------------------------------------------------------
\* Claims about getUdiffFromCommit (specification SpecDiff)

\* the commit a getUdiffFromCommit call is about: its argument, HEAD if absent
UdiffTarget ==
    IF udiff.commit = NoCommit THEN HeadOf(repositories[repo]) ELSE udiff.commit

\* C17: a getUdiffFromCommit that has returned on an initialised adapter has
\* returned the empty string without calling diffBetween when the repository has no
\* commit, and when the commit it is about (its argument, HEAD when the argument is
\* absent) is a root commit or a merge commit; when that commit has exactly one
\* parent it has diffed the commit against that parent and returned the diffs of
\* the commit's changed paths.
C17_UdiffEmptyUnlessOneParent ==
    (udiff.pc = "done" /\ udiff.inited) =>
        LET history == repositories[repo]
            found == getCommit(history, UdiffTarget)
        IN
        /\ Len(history) = 0 => udiff.result = {} /\ ~udiff.diffed
        /\ \A cm \in found :
              /\ udiff.target = UdiffTarget
              /\ cm.parents # 1 => udiff.result = {} /\ ~udiff.diffed
              /\ cm.parents = 1 =>
                    /\ udiff.diffed
                    /\ udiff.base = ParentOf(history, cm.hash)
                    /\ udiff.result = { [path |-> f, base |-> udiff.base, commit |-> cm.hash] :
                                        f \in cm.files }
        /\ udiff.diffed => \E cm \in found : cm.parents = 1

\* C17 witness: getUdiffFromCommit, called without a commit on a repository whose
\* HEAD is a merge commit that changed a file, has returned the empty string.
C17_Witness ==
    /\ udiff.pc = "done" /\ udiff.inited
    /\ udiff.commit = NoCommit
    /\ udiff.result = {}
    /\ \E cm \in getCommit(repositories[repo], HeadOf(repositories[repo])) :
          cm.parents = 2 /\ cm.files # {}

---------------------------------------------------------------------------
\* Claims about the task handlers (specification SpecTasks)

\* C18: an activateTask or deactivateTask handler that has returned has returned
\* true exactly when the task manager reported no error.
C18_TrueIffNoError ==
    taskOp.pc = "done" => (taskOp.result = TRUE <=> ~Truthy(taskOp.errorMessage))

=============================================================================
